---- MODULE Spec2Model ----
(***************************************************************************)
(* Model of the search pipeline of the IRWA search engine:                 *)
(*   myapp/search/algorithms.py     BM25Index, search_in_corpus            *)
(*   myapp/search/search_engine.py  SearchEngine.search (hybrid rerank)    *)
(*   web_app.py                     /search and /doc_details handlers      *)
(*                                                                         *)
(* Numbers.  Python floats are modelled in fixed point:                    *)
(*   raw BM25 score      integer, unit 1/100                               *)
(*   boosted BM25 score  integer, unit 1/10000 (raw times boost in 1/100)  *)
(*   normalised signals  integer, unit 1/Scale                             *)
(*   final hybrid score  integer, unit 1/(100*100*Scale)                   *)
(* Ratings are held in tenths (45 is 4.5); prices and discounts are whole  *)
(* numbers.  ln is a table of natural logarithms in thousandths.           *)
(***************************************************************************)
EXTENDS Integers, Sequences, FiniteSets, TLC

(* ------------------------------------------------------------------ *)
(* Bounds of the model                                                 *)
(* ------------------------------------------------------------------ *)
MaxDocs == 3
MaxClicks == 2

(* ------------------------------------------------------------------ *)
(* Program constants                                                   *)
(* ------------------------------------------------------------------ *)
TopK == 20
\* k1 = 1.5 and b = 0.75 as fractions
K1Num == 3
K1Den == 2
BNum == 3
BDen == 4
\* fixed-point unit of the normalised signals (divisible by 1..7, 9, 10, 50, 100)
Scale == 63 * 100

(* ------------------------------------------------------------------ *)
(* Values                                                              *)
(* ------------------------------------------------------------------ *)
Null == [tag |-> "null"]
Num(n) == [tag |-> "num", v |-> n]
NumStr(n) == [tag |-> "numstr", v |-> n]
BadStr == [tag |-> "badstr"]
Text(ws) == [tag |-> "str", words |-> ws]
Url(u) == [tag |-> "url", v |-> u]

\* Python truthiness of a nullable number: None and 0 are falsy
Truthy(x) == x.tag = "num" /\ x.v # 0

Min(a, b) == IF a <= b THEN a ELSE b
Max(a, b) == IF a >= b THEN a ELSE b

(* ------------------------------------------------------------------ *)
(* Tokenizer                                                           *)
(* ------------------------------------------------------------------ *)
STOPWORDS == {"the", "a", "an", "and", "or", "of", "in", "on"}

\* text.lower(); re.sub('[^a-z0-9\s]', ' ', text); text.split()  on one raw word
LowerAlnumSplit(w) ==
    CASE w = "Red"       -> <<"red">>
      [] w = "RED"       -> <<"red">>
      [] w = "shoes!"    -> <<"shoes">>
      [] w = "Jacket!"   -> <<"jacket">>
      [] w = "The"       -> <<"the">>
      [] w = "--"        -> <<>>
      [] w = "red-shoes" -> <<"red", "shoes">>
      [] OTHER           -> <<w>>

RECURSIVE SplitWords(_)
SplitWords(ws) ==
    IF ws = <<>> THEN <<>>
    ELSE LowerAlnumSplit(Head(ws)) \o SplitWords(Tail(ws))

NotStopword(t) == t # "" /\ t \notin STOPWORDS

\* BM25Index._tokenize: text is a sequence of raw words, or Null
Tokenize(text) ==
    IF text.tag = "null" \/ text.words = <<>> THEN <<>>
    ELSE SelectSeq(SplitWords(text.words), NotStopword)

\* f"{doc.title or ''} {doc.description or ''}"
OrEmpty(text) == IF text.tag = "null" THEN <<>> ELSE text.words
DocText(doc) == Text(OrEmpty(doc.title) \o OrEmpty(doc.description))

(* ------------------------------------------------------------------ *)
(* Index builder                                                       *)
(* ------------------------------------------------------------------ *)
\* Counter(tokens)[term]
Count(tokens, term) == Cardinality({i \in 1..Len(tokens) : tokens[i] = term})

DocTokens(c) == [i \in 1..Len(c) |-> Tokenize(DocText(c[i]))]

RECURSIVE SumSeq(_)
SumSeq(s) == IF s = <<>> THEN 0 ELSE Head(s) + SumSeq(Tail(s))

\* Counter(tokens) as a mapping term -> frequency
TermFreq(tokens) ==
    [t \in {tokens[j] : j \in 1..Len(tokens)} |-> Count(tokens, t)]

\* the mutant of DfIncrement: one increment per occurrence of the term
DfIncrementPerOccurrence(term_freq, term) == term_freq[term]

\* for term in term_freq.keys(): self.doc_frequencies[term] += 1
DfIncrement(term_freq, term) == 1

\* doc_frequencies (a defaultdict(int)) after the documents of tfs, df before
RECURSIVE DocFrequencies(_, _)
DocFrequencies(tfs, df) ==
    IF tfs = <<>> THEN df
    ELSE DocFrequencies(Tail(tfs),
            [t \in (DOMAIN df) \cup (DOMAIN Head(tfs)) |->
                (IF t \in DOMAIN df THEN df[t] ELSE 0)
                + (IF t \in DOMAIN Head(tfs) THEN DfIncrement(Head(tfs), t)
                   ELSE 0)])

\* the index statistics, from the token lists and term-frequency maps of the
\* documents
IndexOf(toks, tfs) ==
    [ doc_lengths     |-> [i \in 1..Len(toks) |-> Len(toks[i])],
      doc_term_freqs  |-> tfs,
      doc_frequencies |-> DocFrequencies(tfs, <<>>),
      total_length    |-> SumSeq([i \in 1..Len(toks) |-> Len(toks[i])]),
      N               |-> Len(toks) ]

\* BM25Index._build_index: the statistics of corpus c (a sequence of
\* documents in dict insertion order).  The bound variables hold each
\* intermediate value once.
BuildIndex(c) ==
    CHOOSE ix \in {IndexOf(toks, [i \in 1..Len(toks) |-> TermFreq(toks[i])]) :
                     toks \in {DocTokens(c)}} : TRUE

\* avg_doc_length = total_length / len(corpus), or 0 for an empty corpus,
\* kept as the fraction AvgNum/AvgDen
AvgNum(ix) == IF ix.N > 0 THEN ix.total_length ELSE 0
AvgDen(ix) == IF ix.N > 0 THEN ix.N ELSE 1

(* ------------------------------------------------------------------ *)
(* BM25 scorer                                                         *)
(* ------------------------------------------------------------------ *)
\* a checked division: divz records that a zero denominator was evaluated
\* (ZeroDivisionError in the program)
Div(a, b) == [val |-> IF b = 0 THEN 0 ELSE a \div b, divz |-> (b = 0)]
NoDiv(v) == [val |-> v, divz |-> FALSE]

\* natural logarithm of 1..60 in thousandths (math.log)
LnMilli ==
    << 0, 693, 1099, 1386, 1609, 1792, 1946, 2079, 2197, 2303,
       2398, 2485, 2565, 2639, 2708, 2773, 2833, 2890, 2944, 2996,
       3045, 3091, 3135, 3178, 3219, 3258, 3296, 3332, 3367, 3401,
       3434, 3466, 3497, 3526, 3555, 3584, 3611, 3638, 3664, 3689,
       3714, 3738, 3761, 3784, 3807, 3829, 3850, 3871, 3892, 3912,
       3932, 3951, 3970, 3989, 4007, 4025, 4043, 4060, 4078, 4094 >>

DocFreq(ix, term) ==
    IF term \in DOMAIN ix.doc_frequencies THEN ix.doc_frequencies[term] ELSE 0

\* the mutant of IdfArgNum: the + 1.0 inside the logarithm is missing
IdfArgNumNoPlusOne(N, df) == 2 * N - 2 * df + 1

\* the argument of the logarithm, (N - df + 0.5) / (df + 0.5) + 1.0, as the
\* fraction IdfArgNum / IdfArgDen (both halves doubled)
IdfArgNum(N, df) == (2 * N - 2 * df + 1) + (2 * df + 1)
IdfArgDen(N, df) == 2 * df + 1

\* BM25Index._calculate_idf, in thousandths
CalculateIdf(ix, term) ==
    LET df == DocFreq(ix, term)
    IN LnMilli[IdfArgNum(ix.N, df)] - LnMilli[IdfArgDen(ix.N, df)]

\* idf * (tf * (k1 + 1)) / (tf + k1 * (1 - b + b * doc_length / avg_doc_length))
\* in hundredths; the division by avg_doc_length is the checked one
BM25Term(ix, tf, doc_length, term) ==
    LET an == AvgNum(ix)
        ad == AvgDen(ix)
        num == tf * (K1Num + K1Den) * BDen * an
        den == tf * K1Den * BDen * an
               + K1Num * ((BDen - BNum) * an + BNum * doc_length * ad)
    IN IF an = 0 THEN [val |-> 0, divz |-> TRUE]
       ELSE Div(CalculateIdf(ix, term) * num, den * 10)

\* the mutant of TermContribution: the tf == 0 guard is missing
TermContributionNoGuard(ix, i, term) ==
    LET tfs == ix.doc_term_freqs[i]
        tf == IF term \in DOMAIN tfs THEN tfs[term] ELSE 0
    IN BM25Term(ix, tf, ix.doc_lengths[i], term)

\* one round of the loop of _calculate_bm25_score over the query tokens
TermContribution(ix, i, term) ==
    LET tfs == ix.doc_term_freqs[i]
        tf == IF term \in DOMAIN tfs THEN tfs[term] ELSE 0
    IN IF tf = 0 THEN NoDiv(0)
       ELSE BM25Term(ix, tf, ix.doc_lengths[i], term)

\* BM25Index._calculate_bm25_score for the document at position i
RECURSIVE CalculateBM25Score(_, _, _)
CalculateBM25Score(ix, i, query_tokens) ==
    IF query_tokens = <<>> THEN NoDiv(0)
    ELSE LET t == TermContribution(ix, i, Head(query_tokens))
             r == CalculateBM25Score(ix, i, Tail(query_tokens))
         IN [val |-> t.val + r.val, divz |-> t.divz \/ r.divz]

(* ------------------------------------------------------------------ *)
(* Metadata booster                                                    *)
(* ------------------------------------------------------------------ *)
\* the factors in tenths: 1.2 for a rating >= 4.0, 1.1 for an item in stock
RatingBoost(doc) ==
    IF Truthy(doc.average_rating) /\ doc.average_rating.v >= 40 THEN 12 ELSE 10

\* the mutant of StockBoost: the boost goes to the items out of stock
StockBoostInverted(doc) == IF doc.out_of_stock THEN 11 ELSE 10

StockBoost(doc) == IF ~doc.out_of_stock THEN 11 ELSE 10

\* boost, in hundredths
Boost(doc) == RatingBoost(doc) * StockBoost(doc)

\* BM25Index._apply_metadata_boosts: hundredths in, ten-thousandths out
ApplyMetadataBoosts(score, doc) == score * Boost(doc)

(* ------------------------------------------------------------------ *)
(* Sorting                                                             *)
(* ------------------------------------------------------------------ *)
\* sorted(..., key=score, reverse=True) and list.sort(key=score, reverse=True):
\* descending and stable (equal scores keep their input order)
RECURSIVE InsertDesc(_, _)
InsertDesc(s, x) ==
    IF s = <<>> THEN <<x>>
    ELSE IF Head(s).score >= x.score THEN <<Head(s)>> \o InsertDesc(Tail(s), x)
    ELSE <<x>> \o s

RECURSIVE SortFrom(_, _)
SortFrom(acc, s) ==
    IF s = <<>> THEN acc ELSE SortFrom(InsertDesc(acc, Head(s)), Tail(s))

\* the mutant of SortDesc: descending, but equal scores come out reversed
RECURSIVE InsertDescUnstable(_, _)
InsertDescUnstable(s, x) ==
    IF s = <<>> THEN <<x>>
    ELSE IF Head(s).score > x.score
         THEN <<Head(s)>> \o InsertDescUnstable(Tail(s), x)
    ELSE <<x>> \o s

RECURSIVE SortFromUnstable(_, _)
SortFromUnstable(acc, s) ==
    IF s = <<>> THEN acc
    ELSE SortFromUnstable(InsertDescUnstable(acc, Head(s)), Tail(s))

SortDescUnstable(s) == SortFromUnstable(<<>>, s)

\* the mutant of SortDesc: the list is left as it came
Unsorted(s) == s

SortDesc(s) == SortFrom(<<>>, s)

\* the mutant of Slice: the cut is off by one
SliceOneMore(s, k) == SubSeq(s, 1, Min(k + 1, Len(s)))

\* ranked_docs[:top_k]
Slice(s, k) == SubSeq(s, 1, Min(k, Len(s)))

(* ------------------------------------------------------------------ *)
(* BM25Index.search and search_in_corpus                               *)
(* ------------------------------------------------------------------ *)
\* the loop over self.corpus.keys(): one entry per document, corpus order
\* raw is the BM25 score before the boost, kept beside the boosted score
Scored(doc, b) ==
    [doc |-> doc, score |-> ApplyMetadataBoosts(b.val, doc), raw |-> b.val,
     divz |-> b.divz]

\* the mutant of ScoreAll: only the documents that match the query are kept
HasMatch(e) == e.raw > 0

ScoreAllMatching(c, ix, query_tokens) ==
    SelectSeq([i \in 1..Len(c) |->
                  Scored(c[i], CalculateBM25Score(ix, i, query_tokens))],
              HasMatch)

ScoreAll(c, ix, query_tokens) ==
    [i \in 1..Len(c) |->
        CHOOSE r \in {Scored(c[i], b) :
                        b \in {CalculateBM25Score(ix, i, query_tokens)}} : TRUE]

\* BM25Index.search: [res |-> ranked (doc, score) pairs, divz |-> a division
\* by zero was evaluated, scored |-> number of documents scored]
TopRanked(scores, ranked_docs, top_k) ==
    [res |-> [i \in 1..Len(Slice(ranked_docs, top_k)) |->
                [doc |-> ranked_docs[i].doc, score |-> ranked_docs[i].score,
                 raw |-> ranked_docs[i].raw]],
     divz |-> \E i \in 1..Len(scores) : scores[i].divz,
     scored |-> Len(scores)]

\* the mutant of NoQueryTokens: the early return is missing
NeverEarlyReturn(query_tokens) == FALSE

\* if not query_tokens: return []
NoQueryTokens(query_tokens) == query_tokens = <<>>

BM25Search(c, query_text, top_k) ==
    CHOOSE r \in
      { IF NoQueryTokens(query_tokens)
        THEN [res |-> <<>>, divz |-> FALSE, scored |-> 0]
        ELSE CHOOSE t \in
               {TopRanked(scores, SortDesc(scores), top_k) :
                  scores \in {ScoreAll(c, ix, query_tokens) :
                                ix \in {BuildIndex(c)}}} : TRUE
        : query_tokens \in {Tokenize(query_text)} } : TRUE

\* search_in_corpus(query_text, corpus, top_k)
SearchInCorpus(query_text, c, top_k) == BM25Search(c, query_text, top_k)

(* ------------------------------------------------------------------ *)
(* Hybrid reranker (SearchEngine.search)                               *)
(* ------------------------------------------------------------------ *)
\* the mutant of FactClicksGet: a lookup that inserts the missing key
FactClicksSetDefault(fc, pid) ==
    [val |-> IF pid \in DOMAIN fc THEN fc[pid] ELSE 0,
     map |-> IF pid \in DOMAIN fc THEN fc ELSE fc @@ (pid :> 0)]

\* analytics_data.fact_clicks.get(doc.pid, 0): the value, and the mapping
\* as the lookup leaves it
FactClicksGet(fc, pid) ==
    [val |-> IF pid \in DOMAIN fc THEN fc[pid] ELSE 0, map |-> fc]

\* the loop that fills click_counts, threading the shared mapping
RECURSIVE CollectClicks(_, _, _)
CollectClicks(bm25_results, fc, click_counts) ==
    IF bm25_results = <<>> THEN [click_counts |-> click_counts, map |-> fc]
    ELSE LET pid == Head(bm25_results).doc.pid
             g == FactClicksGet(fc, pid)
         IN CollectClicks(Tail(bm25_results), g.map,
                          [p \in (DOMAIN click_counts) \cup {pid} |->
                              IF p = pid THEN g.val ELSE click_counts[p]])

SetMax(S) == CHOOSE x \in S : \A y \in S : y <= x
SetMin(S) == CHOOSE x \in S : \A y \in S : x <= y

\* the prices of the candidates that have one
Prices(bm25_results) ==
    {bm25_results[i].doc.selling_price.v :
        i \in {j \in 1..Len(bm25_results) :
                 bm25_results[j].doc.selling_price.tag = "num"}}

Clamp01(x) == Min(Max(x, 0), Scale)

\* rating = average_rating or 0.0; rating_norm = min(max(rating / 5.0, 0), 1)
RatingNorm(doc) ==
    LET rating == IF Truthy(doc.average_rating) THEN doc.average_rating.v ELSE 0
    IN Clamp01((rating * Scale) \div 50)

\* discount = discount or 0.0; float(discount), 0.0 when the conversion fails
DiscountVal(doc) ==
    CASE doc.discount.tag = "num"    -> doc.discount.v
      [] doc.discount.tag = "numstr" -> doc.discount.v
      [] OTHER                       -> 0

DiscountNorm(doc) == Clamp01((DiscountVal(doc) * Scale) \div 100)

\* the mutant of SimNorm: the guard on max_bm25 is missing
SimNormNoGuard(s, max_bm25) == Div(s * Scale, max_bm25)

\* sim_norm = (s / max_bm25) if max_bm25 else 0.0
SimNorm(s, max_bm25) ==
    IF max_bm25 # 0 THEN Div(s * Scale, max_bm25) ELSE NoDiv(0)

\* price_score: neutral 0.5 without price information, lower price better
PriceScore(doc, prices) ==
    IF doc.selling_price.tag = "null" \/ prices = {}
       \/ SetMax(prices) = SetMin(prices)
    THEN NoDiv(Scale \div 2)
    ELSE LET d == Div((doc.selling_price.v - SetMin(prices)) * Scale,
                      SetMax(prices) - SetMin(prices))
         IN [val |-> Scale - d.val, divz |-> d.divz]

\* the mutant of PopularityNorm: normalised by a constant instead of max_clicks
PopularityNormUnscaled(clicks, max_clicks) == Div(clicks * Scale, 1)

\* popularity_norm = (clicks / max_clicks) if max_clicks else 0.0
PopularityNorm(clicks, max_clicks) ==
    IF max_clicks # 0 THEN Div(clicks * Scale, max_clicks) ELSE NoDiv(0)

\* the in-stock multiplier 1.05, in hundredths
StockMultiplier(doc) == IF ~doc.out_of_stock THEN 105 ELSE 100

\* the mutant of FinalScore: the popularity term is left out
FinalScoreNoPopularity(sim, rating, discount, price, pop, doc) ==
    (60 * sim + 15 * rating + 10 * discount + 5 * price)
        * StockMultiplier(doc)

\* the weighted combination, then the in-stock multiplier
FinalScore(sim, rating, discount, price, pop, doc) ==
    (60 * sim + 15 * rating + 10 * discount + 5 * price + 5 * pop)
        * StockMultiplier(doc)

\* link_url = original_url if original_url else "/doc_details?pid=..&search_id=.."
LinkUrl(doc, search_id) ==
    IF doc.url.tag = "url" /\ doc.url.v # ""
    THEN doc.url
    ELSE [tag |-> "link", pid |-> doc.pid, search_id |-> search_id]

\* Document(..., url=link_url, score=score): a fresh record
ResultDocument(doc, link_url, score) ==
    [pid |-> doc.pid, title |-> doc.title, description |-> doc.description,
     out_of_stock |-> doc.out_of_stock, selling_price |-> doc.selling_price,
     discount |-> doc.discount, average_rating |-> doc.average_rating,
     url |-> link_url, score |-> score]

(* ------------------------------------------------------------------ *)
(* State                                                               *)
(* ------------------------------------------------------------------ *)
VARIABLES
    corpus,        \* web_app.corpus: the documents, in dict insertion order
    fact_clicks,   \* AnalyticsData.fact_clicks: pid -> clicks (partial)
    op,            \* the handler that ran last: "init", "search", "click"
    \* the arguments, locals and outcome of the search, when the handler
    \* that ran last is the search (empty otherwise)
    query,         \* search_query
    search_id,     \* search_id
    last_clicks,   \* fact_clicks as the search found it
    bm25_results,  \* bm25_results
    hybrid,        \* the signals and final score per candidate, BM25 order
    results,       \* what the search returned
    raised,        \* the search ended in an exception
    scored,        \* documents scored by the search
    repeated,      \* the handler before was a search with the same arguments
    prev_results,  \* what that search returned, when repeated
    \* a search that runs line by line beside the click handler
    pc,            \* where it is: "idle", or "collect" (the loop at line 41)
    click_counts   \* click_counts: the counts it has read so far

vars == << corpus, fact_clicks, op, query, search_id, last_clicks, bm25_results,
           hybrid, results, raised, scored, repeated, prev_results, pc,
           click_counts >>

\* the mutant of FreshResults: the list of the previous call is reused
StaleResults == results

\* results = []
FreshResults == <<>>

\* max_bm25 = max(bm25_scores) if bm25_scores else 1.0
MaxBM25(bm25_res) ==
    IF bm25_res = <<>> THEN 1
    ELSE SetMax({bm25_res[i].score : i \in 1..Len(bm25_res)})

\* max_clicks = max(click_counts.values()) if click_counts else 1
MaxClicksOf(counts) ==
    IF DOMAIN counts = {} THEN 1
    ELSE SetMax({counts[p] : p \in DOMAIN counts})

\* the mutant of CandidateClicks: the shared mapping is read a second time
CandidateClicksLive(counts, pid) ==
    IF pid \in DOMAIN fact_clicks THEN fact_clicks[pid] ELSE 0

\* clicks = click_counts.get(doc.pid, 0)
CandidateClicks(counts, pid) == IF pid \in DOMAIN counts THEN counts[pid] ELSE 0

\* one round of the loop that computes the hybrid score of a candidate
Signals(cand, max_bm25, prices, clicks, max_clicks) ==
    CHOOSE h \in
      { [pid |-> cand.doc.pid, bm25 |-> cand.score,
         sim |-> sim.val, rating |-> rating, discount |-> discount,
         price |-> price.val, pop |-> pop.val,
         score |-> FinalScore(sim.val, rating, discount, price.val, pop.val,
                              cand.doc),
         divz |-> sim.divz \/ price.divz \/ pop.divz] :
        sim \in {SimNorm(cand.score, max_bm25)},
        rating \in {RatingNorm(cand.doc)},
        discount \in {DiscountNorm(cand.doc)},
        price \in {PriceScore(cand.doc, prices)},
        pop \in {PopularityNorm(clicks, max_clicks)} } : TRUE

\* hybrid_results before the sort: one entry per candidate, BM25 order
HybridResults(bm25_res, counts) ==
    CHOOSE hyb \in
      { [i \in 1..Len(bm25_res) |->
            Signals(bm25_res[i], max_bm25, prices,
                    CandidateClicks(counts, bm25_res[i].doc.pid), max_clicks)] :
        max_bm25 \in {MaxBM25(bm25_res)},
        prices \in {Prices(bm25_res)},
        max_clicks \in {MaxClicksOf(counts)} } : TRUE

\* the documents of the candidates, by pid
DocOf(bm25_res, pid) ==
    bm25_res[CHOOSE i \in 1..Len(bm25_res) : bm25_res[i].doc.pid = pid].doc

\* the loop that builds the returned list from the sorted hybrid results
FinalResults(bm25_res, sorted, sid) ==
    [i \in 1..Len(sorted) |->
        CHOOSE d \in {ResultDocument(doc, LinkUrl(doc, sid), sorted[i].score) :
                        doc \in {DocOf(bm25_res, sorted[i].pid)}} : TRUE]

Rerank(bm, cc, hyb, sid) ==
    IF \E i \in 1..Len(hyb) : hyb[i].divz
    THEN [results |-> <<>>, raised |-> TRUE, scored |-> bm.scored,
          bm25_results |-> <<>>, hybrid |-> <<>>, map |-> cc.map]
    ELSE [results |-> FreshResults \o FinalResults(bm.res, SortDesc(hyb), sid),
          raised |-> FALSE, scored |-> bm.scored,
          bm25_results |-> bm.res, hybrid |-> hyb, map |-> cc.map]

\* SearchEngine.search(search_query, search_id, corpus, analytics_data)
SearchEngineSearch(search_query, sid, c, fc) ==
    CHOOSE r \in
      { IF bm.divz \/ bm.res = <<>>
        THEN [results |-> <<>>, raised |-> bm.divz, scored |-> bm.scored,
              bm25_results |-> <<>>, hybrid |-> <<>>, map |-> fc]
        ELSE CHOOSE x \in
               {Rerank(bm, cc, HybridResults(bm.res, cc.click_counts), sid) :
                  cc \in {CollectClicks(bm.res, fc, <<>>)}} : TRUE
        : bm \in {SearchInCorpus(search_query, c, TopK)} } : TRUE

(* ------------------------------------------------------------------ *)
(* Inputs                                                              *)
(* ------------------------------------------------------------------ *)
Doc(pid, title, description, rating, oos, price, discount, url) ==
    [pid |-> pid, title |-> title, description |-> description,
     average_rating |-> rating, out_of_stock |-> oos, selling_price |-> price,
     discount |-> discount, url |-> url]

ShoesTitle == Text(<<"Red", "running", "shoes">>)
ShoesDescription == Text(<<"comfortable", "shoes!">>)

Catalogue ==
    << Doc(1, ShoesTitle, ShoesDescription, Num(45), FALSE, Num(50), Null, Null),
       Doc(2, Text(<<"blue", "Jacket!">>), Text(<<"warm", "jacket">>),
           Num(30), FALSE, Num(80), Num(150), Url("http://shop/b")),
       Doc(3, Text(<<"red-shoes", "sale">>), Text(<<"discounted", "red", "shoes">>),
           Num(48), TRUE, Num(40), Num(30), Null),
       Doc(4, Text(<<"The">>), Null, Null, FALSE, Null, BadStr, Url("")),
       Doc(5, ShoesTitle, ShoesDescription, Num(45), FALSE, Num(50), Null, Null),
       Doc(6, ShoesTitle, ShoesDescription, Num(39), TRUE, Num(50), NumStr(30),
           Url("http://shop/f")),
       Doc(7, Null, Text(<<"--", "of">>), Num(0), TRUE, Num(40), Null, Null) >>

\* the sequence of the members of S (a set of positions) in increasing order
RECURSIVE Ascending(_)
Ascending(S) ==
    IF S = {} THEN <<>>
    ELSE LET m == SetMin(S) IN <<m>> \o Ascending(S \ {m})

Reverse(s) == [i \in 1..Len(s) |-> s[Len(s) + 1 - i]]

Pick(ps) == [i \in 1..Len(ps) |-> Catalogue[ps[i]]]

SmallCorpora ==
    LET picks == {Ascending(S) : S \in {T \in SUBSET (1..Len(Catalogue)) :
                                          Cardinality(T) <= MaxDocs}}
    IN {Pick(ps) : ps \in picks} \cup {Pick(Reverse(ps)) : ps \in picks}

\* corpora above the top_k cut: n copies of catalogue documents under new pids
BigCorpus(n, kinds) ==
    [i \in 1..n |-> [Catalogue[kinds[((i - 1) % Len(kinds)) + 1]]
                        EXCEPT !.pid = 100 + i]]

BigCorpora ==
    { BigCorpus(TopK + 1, <<1>>), BigCorpus(TopK + 2, <<4, 1, 3>>),
      Reverse(BigCorpus(TopK + 2, <<4, 1, 3>>)), BigCorpus(TopK + 1, <<4, 7>>) }

Corpora == SmallCorpora \cup BigCorpora

Queries ==
    { Text(<<>>), Text(<<"The", "of", "--">>), Text(<<"RED", "shoes!">>),
      Text(<<"jacket">>), Text(<<"zebra">>) }

SearchIds == {7, 8}

\* the documents a /doc_details request asks for: the first and the last of
\* the corpus
ClickPids == {corpus[i].pid : i \in {1, Len(corpus)} \cap (1..Len(corpus))}

(* ------------------------------------------------------------------ *)
(* Specification                                                       *)
(* ------------------------------------------------------------------ *)
Init ==
    /\ corpus \in Corpora
    /\ fact_clicks = <<>>
    /\ op = "init"
    /\ query = Text(<<>>)
    /\ search_id = 0
    /\ last_clicks = <<>>
    /\ bm25_results = <<>>
    /\ hybrid = <<>>
    /\ results = <<>>
    /\ raised = FALSE
    /\ scored = 0
    /\ repeated = FALSE
    /\ prev_results = <<>>
    /\ pc = "idle"
    /\ click_counts = <<>>

\* web_app.search_form_post: one call of search_engine.search
SearchFormPost(q, sid) ==
    \E r \in {SearchEngineSearch(q, sid, corpus, fact_clicks)} :
    LET again == op = "search" /\ q = query /\ sid = search_id
                 /\ fact_clicks = last_clicks /\ ~raised
    IN /\ op' = "search"
       /\ query' = q
       /\ search_id' = sid
       /\ last_clicks' = fact_clicks
       /\ fact_clicks' = r.map
       /\ bm25_results' = r.bm25_results
       /\ hybrid' = r.hybrid
       /\ results' = r.results
       /\ raised' = r.raised
       /\ scored' = r.scored
       /\ repeated' = again
       /\ prev_results' = IF again THEN results ELSE <<>>
       /\ UNCHANGED << corpus, pc, click_counts >>

\* all clicks registered so far
RECURSIVE SumOver(_, _)
SumOver(f, S) ==
    IF S = {} THEN 0
    ELSE LET x == CHOOSE y \in S : TRUE IN f[x] + SumOver(f, S \ {x})

TotalClicks(fc) == SumOver(fc, DOMAIN fc)

\* fact_clicks[pid] += 1 if pid in fact_clicks.keys() else fact_clicks[pid] = 1
RegisterClick(fc, pid) ==
    IF pid \in DOMAIN fc THEN [fc EXCEPT ![pid] = @ + 1] ELSE fc @@ (pid :> 1)

\* web_app.doc_details: the click counter of the document goes up by one
DocDetails(pid) ==
    /\ TotalClicks(fact_clicks) < MaxClicks
    /\ fact_clicks' = RegisterClick(fact_clicks, pid)
    /\ op' = "click"
    \* the locals and the return value of an earlier search are gone
    /\ query' = Text(<<>>)
    /\ search_id' = 0
    /\ last_clicks' = <<>>
    /\ bm25_results' = <<>>
    /\ hybrid' = <<>>
    /\ results' = <<>>
    /\ raised' = FALSE
    /\ scored' = 0
    /\ repeated' = FALSE
    /\ prev_results' = <<>>
    /\ UNCHANGED << corpus, pc, click_counts >>

Next ==
    \/ \E q \in Queries, sid \in SearchIds : SearchFormPost(q, sid)
    \/ \E pid \in ClickPids : DocDetails(pid)

Spec == Init /\ [][Next]_vars

(* ------------------------------------------------------------------ *)
(* The search line by line, beside the click handler                   *)
(* ------------------------------------------------------------------ *)
\* the candidates whose click count the loop at line 41 has read
CountsRead == Cardinality(DOMAIN click_counts)

\* SearchEngine.search up to the loop that collects the clicks (lines 25-38):
\* the BM25 candidates, and the early return when there is none
SearchBegin(q, sid) ==
    /\ pc = "idle"
    /\ \E bm \in {SearchInCorpus(q, corpus, TopK)} :
          /\ pc' = IF bm.divz \/ bm.res = <<>> THEN "idle" ELSE "collect"
          /\ op' = IF bm.divz \/ bm.res = <<>> THEN "search" ELSE "searching"
          /\ bm25_results' = IF bm.divz THEN <<>> ELSE bm.res
          /\ raised' = bm.divz
          /\ scored' = bm.scored
    /\ query' = q
    /\ search_id' = sid
    /\ last_clicks' = fact_clicks
    /\ click_counts' = <<>>
    /\ hybrid' = <<>>
    /\ results' = <<>>
    /\ repeated' = FALSE
    /\ prev_results' = <<>>
    /\ UNCHANGED << corpus, fact_clicks >>

\* one round of the loop at lines 41-54: the click count of the next candidate
\* is read from the shared mapping into click_counts
SearchReadClicks ==
    /\ pc = "collect"
    /\ CountsRead < Len(bm25_results)
    /\ \E g \in {FactClicksGet(fact_clicks,
                                bm25_results[CountsRead + 1].doc.pid)} :
          /\ click_counts' =
                click_counts @@ (bm25_results[CountsRead + 1].doc.pid :> g.val)
          /\ fact_clicks' = g.map
    /\ UNCHANGED << corpus, op, query, search_id, last_clicks, bm25_results,
                    hybrid, results, raised, scored, repeated, prev_results, pc >>

\* the rest of the search (lines 56-129), which reads only its locals
SearchFinish ==
    /\ pc = "collect"
    /\ CountsRead = Len(bm25_results)
    /\ \E r \in {Rerank([res |-> bm25_results, scored |-> scored],
                         [click_counts |-> click_counts, map |-> fact_clicks],
                         HybridResults(bm25_results, click_counts),
                         search_id)} :
          /\ hybrid' = r.hybrid
          /\ results' = r.results
          /\ raised' = r.raised
          /\ bm25_results' = r.bm25_results
          /\ fact_clicks' = r.map
    /\ pc' = "idle"
    /\ op' = "search"
    /\ UNCHANGED << corpus, query, search_id, last_clicks, scored, repeated,
                    prev_results, click_counts >>

\* web_app.doc_details in another thread: the counter goes up, the locals of
\* the search are out of its reach
DocDetailsBeside(pid) ==
    /\ TotalClicks(fact_clicks) < MaxClicks
    /\ fact_clicks' = RegisterClick(fact_clicks, pid)
    /\ UNCHANGED << corpus, op, query, search_id, last_clicks, bm25_results,
                    hybrid, results, raised, scored, repeated, prev_results, pc,
                    click_counts >>

NextConc ==
    \/ \E q \in Queries, sid \in SearchIds : SearchBegin(q, sid)
    \/ SearchReadClicks
    \/ SearchFinish
    \/ \E pid \in ClickPids : DocDetailsBeside(pid)

SpecConc == Init /\ [][NextConc]_vars

(* ------------------------------------------------------------------ *)
(* Properties                                                          *)
(* ------------------------------------------------------------------ *)
Searched == op = "search"
QueryTokens == Tokenize(query)
AllZeroTokens(c) == \A i \in 1..Len(c) : Tokenize(DocText(c[i])) = <<>>

\* C1: the result of a search has at most min(20, |C|) entries and no
\* document id appears in it twice.
C1_AtMostTopKDistinct ==
    Searched =>
        /\ Len(results) <= Min(TopK, Len(corpus))
        /\ \A i, j \in 1..Len(results) :
              results[i].pid = results[j].pid => i = j

\* C1 witness: a corpus above the cut, searched, returned exactly 20 results
C1_Witness ==
    Searched /\ Len(corpus) > TopK /\ Len(results) = TopK

\* C2 as stated: with a non-empty corpus of zero-token documents, a query
\* with a token returns an empty result.
C2_ZeroTokenCorpusEmptyResult ==
    (Searched /\ corpus # <<>> /\ AllZeroTokens(corpus) /\ QueryTokens # <<>>)
        => results = <<>>

\* C2 amended: with a non-empty corpus of zero-token documents and a query
\* with a token, no division is evaluated (every tf is 0), every document is
\* scored 0, and the search returns min(20, |C|) results, each with simNorm 0.
C2_ZeroTokenCorpusAllScoredZero ==
    (Searched /\ corpus # <<>> /\ AllZeroTokens(corpus) /\ QueryTokens # <<>>)
        => /\ ~raised
           /\ scored = Len(corpus)
           /\ Len(results) = Min(TopK, Len(corpus))
           /\ \A i \in 1..Len(bm25_results) : bm25_results[i].score = 0
           /\ \A i \in 1..Len(hybrid) : hybrid[i].sim = 0

\* C2 witness: such a corpus of two or more documents, searched
C2_Witness ==
    /\ Searched /\ Len(corpus) >= 2 /\ AllZeroTokens(corpus)
    /\ QueryTokens # <<>> /\ Len(results) >= 2

\* C3: an empty corpus, or a query that tokenizes to nothing, gives an empty
\* result, without an exception and without scoring a document.
C3_EmptyInputEmptyResult ==
    (Searched /\ (corpus = <<>> \/ QueryTokens = <<>>))
        => results = <<>> /\ ~raised /\ scored = 0

\* C3 witness: a query of stopwords and punctuation on a non-empty corpus
C3_Witness ==
    /\ Searched /\ corpus # <<>> /\ query.words # <<>> /\ QueryTokens = <<>>
    /\ results = <<>>

\* C4: no search evaluates a division by zero, so no exception escapes.
C4_NoDivisionByZero == ~raised

\* C4 witness: a search where each guard is the one that saves the division:
\* zero average length, zero max BM25, equal prices and zero max clicks
C4_Witness ==
    /\ Searched /\ corpus # <<>> /\ AllZeroTokens(corpus) /\ QueryTokens # <<>>
    /\ results # <<>>
    /\ \A i \in 1..Len(bm25_results) : bm25_results[i].score = 0
    /\ Cardinality(Prices(bm25_results)) = 1
    /\ \A i \in 1..Len(hybrid) : hybrid[i].pop = 0

\* C5: every signal lies in [0, 1] and every final score in
\* [0, 1.05 * (0.6 + 0.15 + 0.1 + 0.05 + 0.05)].
C5_FinalScoreRange ==
    /\ \A i \in 1..Len(hybrid) :
          /\ hybrid[i].sim \in 0..Scale
          /\ hybrid[i].rating \in 0..Scale
          /\ hybrid[i].discount \in 0..Scale
          /\ hybrid[i].price \in 0..Scale
          /\ hybrid[i].pop \in 0..Scale
          /\ hybrid[i].score \in 0..(105 * (60 + 15 + 10 + 5 + 5) * Scale)
    /\ \A i \in 1..Len(results) :
          results[i].score \in 0..(105 * (60 + 15 + 10 + 5 + 5) * Scale)

\* C5 witness: a candidate with the top similarity and the top popularity,
\* beside one with less of both
C5_Witness ==
    /\ Searched /\ Len(results) >= 2
    /\ \E i, j \in 1..Len(hybrid) :
          /\ hybrid[i].sim = Scale /\ hybrid[i].pop = Scale
          /\ hybrid[j].sim < Scale /\ hybrid[j].pop < Scale

\* the position of a document in the BM25-stage ranking
BM25Pos(pid) ==
    CHOOSE i \in 1..Len(bm25_results) : bm25_results[i].doc.pid = pid

\* C6: the BM25-stage list is ordered by boosted score descending, the result
\* by final score descending, and results of equal final score keep their
\* BM25-stage order.
C6_SortedStable ==
    /\ \A i, j \in 1..Len(bm25_results) :
          i < j => bm25_results[i].score >= bm25_results[j].score
    /\ \A i, j \in 1..Len(results) :
          i < j =>
            /\ results[i].score >= results[j].score
            /\ results[i].score = results[j].score
                  => BM25Pos(results[i].pid) < BM25Pos(results[j].pid)

\* C6 witness: two results tie in final score and a third scores differently
C6_Witness ==
    /\ Searched
    /\ \E i, j, k \in 1..Len(results) :
          /\ i < j /\ results[i].score = results[j].score
          /\ results[k].score # results[i].score

Injective(p) == \A i, j \in DOMAIN p : p[i] = p[j] => i = j

Reorderings(c) ==
    IF Len(c) <= MaxDocs
    THEN {[i \in 1..Len(c) |-> c[p[i]]] :
            p \in {q \in [1..Len(c) -> 1..Len(c)] : Injective(q)}}
    ELSE {Reverse(c)}

SameInAnyOrder ==
    \A c \in Reorderings(corpus) :
        SearchEngineSearch(query, search_id, c, last_clicks).results = results

NoTies ==
    /\ \A i, j \in 1..Len(hybrid) : hybrid[i].score = hybrid[j].score => i = j
    /\ \A sc \in {ScoreAll(corpus, BuildIndex(corpus), QueryTokens)} :
          \A i, j \in 1..Len(sc) : sc[i].score = sc[j].score => i = j

C9_SearchMutatesNothing ==
    [][op' = "search" => (corpus' = corpus /\ fact_clicks' = fact_clicks)]_vars

\* C9 witness: a search returned a document under a rewritten url and read
\* the click count of a document that has none
C9_Witness ==
    /\ Searched /\ fact_clicks # <<>>
    /\ \E i \in 1..Len(results) :
          /\ results[i].url.tag = "link"
          /\ results[i].pid \notin DOMAIN fact_clicks
    /\ \E i \in 1..Len(corpus) : corpus[i].url.tag = "null"

\* C10: boosted = raw * r * s, r = 1.2 exactly when the rating is present and
\* >= 4.0, s = 1.1 exactly when the document is in stock; rating 4.5 in stock
\* gives 1.32 * raw, rating 3.9 out of stock gives raw, and 0 stays 0.
C10_MetadataBoost ==
    \A i \in 1..Len(bm25_results) :
        LET e == bm25_results[i]
            r == IF e.doc.average_rating.tag = "num"
                    /\ e.doc.average_rating.v >= 40 THEN 12 ELSE 10
            s == IF e.doc.out_of_stock = FALSE THEN 11 ELSE 10
        IN /\ e.score = e.raw * r * s
           /\ (e.doc.average_rating = Num(45) /\ ~e.doc.out_of_stock)
                 => e.score = 132 * e.raw
           /\ (e.doc.average_rating = Num(39) /\ e.doc.out_of_stock)
                 => e.score = 100 * e.raw
           /\ e.raw = 0 => e.score = 0

\* C10 witness: a document rated 4.5 in stock and one rated 3.9 out of stock,
\* both with a positive raw score
C10_Witness ==
    /\ Searched
    /\ \E i, j \in 1..Len(bm25_results) :
          /\ bm25_results[i].doc.average_rating = Num(45)
          /\ ~bm25_results[i].doc.out_of_stock /\ bm25_results[i].raw > 0
          /\ bm25_results[j].doc.average_rating = Num(39)
          /\ bm25_results[j].doc.out_of_stock /\ bm25_results[j].raw > 0

\* the terms of the index of the corpus and of the query
Vocabulary == DOMAIN BuildIndex(corpus).doc_frequencies
IdfTerms == Vocabulary \cup {QueryTokens[i] : i \in 1..Len(QueryTokens)}

\* C11: in a corpus of N documents the argument of the logarithm,
\* (N - df + 0.5) / (df + 0.5) + 1, is defined and greater than 1 for every
\* document frequency 0 <= df <= N and strictly larger for the smaller of two
\* document frequencies, and so is the IDF of the terms: a term in fewer
\* documents has the strictly larger IDF, and every IDF is positive.
C11_IdfDecreasingPositive ==
    LET N == Len(corpus)
        ix == BuildIndex(corpus)
    IN /\ \A df \in 0..N :
             /\ IdfArgDen(N, df) > 0
             /\ IdfArgNum(N, df) > IdfArgDen(N, df)
             /\ LnMilli[IdfArgNum(N, df)] - LnMilli[IdfArgDen(N, df)] > 0
       /\ \A df1, df2 \in 0..N :
             df1 < df2 =>
                /\ IdfArgNum(N, df1) * IdfArgDen(N, df2)
                      > IdfArgNum(N, df2) * IdfArgDen(N, df1)
                /\ LnMilli[IdfArgNum(N, df1)] - LnMilli[IdfArgDen(N, df1)]
                      > LnMilli[IdfArgNum(N, df2)] - LnMilli[IdfArgDen(N, df2)]
       /\ \A t1, t2 \in IdfTerms :
             /\ DocFreq(ix, t1) \in 0..N
             /\ CalculateIdf(ix, t1) > 0
             /\ DocFreq(ix, t1) < DocFreq(ix, t2)
                   => CalculateIdf(ix, t1) > CalculateIdf(ix, t2)

\* C11 witness: a search whose query has a term of no document (df = 0) over
\* a corpus that has a term in one document, a term in two and a term in all
C11_Witness ==
    /\ Searched /\ results # <<>>
    /\ \E i \in 1..Len(QueryTokens) :
          DocFreq(BuildIndex(corpus), QueryTokens[i]) = 0
    /\ \E t1, t2, t3 \in Vocabulary :
          /\ DocFreq(BuildIndex(corpus), t1) = 1
          /\ DocFreq(BuildIndex(corpus), t2) = 2
          /\ DocFreq(BuildIndex(corpus), t3) = Len(corpus)

\* the click count the search found for a document
ClicksFound(pid) == IF pid \in DOMAIN last_clicks THEN last_clicks[pid] ELSE 0

\* the position of a candidate in the returned list
ResultPos(pid) == CHOOSE k \in 1..Len(results) : results[k].pid = pid

\* candidates i and j differ in nothing but, possibly, their clicks
SameButClicks(i, j) ==
    /\ bm25_results[i].score = bm25_results[j].score
    /\ bm25_results[i].doc.average_rating = bm25_results[j].doc.average_rating
    /\ bm25_results[i].doc.discount = bm25_results[j].doc.discount
    /\ bm25_results[i].doc.selling_price = bm25_results[j].doc.selling_price
    /\ bm25_results[i].doc.out_of_stock = bm25_results[j].doc.out_of_stock

\* C12: of two candidates of one search with equal boosted BM25 score, rating,
\* discount, selling price and stock status, the one with strictly more clicks
\* has the strictly larger final score and comes first in the result (the most
\* clicked candidate has popularity 1, one without clicks 0); when no
\* candidate has a click, the popularity of every candidate is 0.
C12_PopularityEffect ==
    (Searched /\ ~raised) =>
        /\ \A i, j \in 1..Len(hybrid) :
              (/\ SameButClicks(i, j)
               /\ ClicksFound(hybrid[i].pid) > ClicksFound(hybrid[j].pid))
              => /\ hybrid[i].pop > hybrid[j].pop
                 /\ hybrid[i].score > hybrid[j].score
                 /\ ResultPos(hybrid[i].pid) < ResultPos(hybrid[j].pid)
                 /\ (\A k \in 1..Len(hybrid) :
                        ClicksFound(hybrid[k].pid) <= ClicksFound(hybrid[i].pid))
                       => hybrid[i].pop = Scale
                 /\ ClicksFound(hybrid[j].pid) = 0 => hybrid[j].pop = 0
        /\ (\A k \in 1..Len(hybrid) : ClicksFound(hybrid[k].pid) = 0)
              => \A k \in 1..Len(hybrid) : hybrid[k].pop = 0

\* C12 witness: two candidates alike in all but clicks, the later one in BM25
\* order has the clicks and is returned before the other
C12_Witness ==
    /\ Searched /\ ~raised
    /\ \E i, j \in 1..Len(hybrid) :
          /\ j < i
          /\ SameButClicks(i, j)
          /\ ClicksFound(hybrid[i].pid) > ClicksFound(hybrid[j].pid)
          /\ ClicksFound(hybrid[j].pid) = 0
          /\ ResultPos(hybrid[i].pid) < ResultPos(hybrid[j].pid)

\* the sum of the counts of a term-frequency map
SumCounts(term_freq) == SumOver(term_freq, DOMAIN term_freq)

\* C13: in the index built over the corpus, the document frequency of every
\* term is the number of documents whose term-frequency map has the term
\* (and no other term has one), the length of every document is the sum of
\* the counts of its term-frequency map, and the average document length is
\* the sum of the lengths over the number of documents, 0 for an empty corpus.
C13_IndexConsistent ==
    LET ix == BuildIndex(corpus)
        n == Len(corpus)
    IN /\ DOMAIN ix.doc_term_freqs = 1..n
       /\ DOMAIN ix.doc_lengths = 1..n
       /\ DOMAIN ix.doc_frequencies =
             UNION {DOMAIN ix.doc_term_freqs[i] : i \in 1..n}
       /\ \A t \in DOMAIN ix.doc_frequencies :
             ix.doc_frequencies[t] =
                Cardinality({i \in 1..n : t \in DOMAIN ix.doc_term_freqs[i]})
       /\ \A i \in 1..n :
             ix.doc_lengths[i] = SumCounts(ix.doc_term_freqs[i])
       /\ n > 0 => AvgNum(ix) * n = SumSeq(ix.doc_lengths) * AvgDen(ix)
       /\ n = 0 => AvgNum(ix) = 0

\* C13 witness: a searched corpus in which a term occurs twice in one document
\* and in more than one document, next to a document without tokens
C13_Witness ==
    /\ Searched /\ results # <<>>
    /\ \E i, j, k \in 1..Len(corpus) :
          \E t \in DOMAIN BuildIndex(corpus).doc_term_freqs[i] :
             /\ i # j
             /\ BuildIndex(corpus).doc_term_freqs[i][t] >= 2
             /\ t \in DOMAIN BuildIndex(corpus).doc_term_freqs[j]
             /\ BuildIndex(corpus).doc_lengths[k] = 0

\* the click count of a document in the shared mapping now
ClicksNow(pid) == IF pid \in DOMAIN fact_clicks THEN fact_clicks[pid] ELSE 0

\* the documents of the candidates at positions 1..n
CandidatePids(n) == {bm25_results[i].doc.pid : i \in 1..n}

\* C14: whatever clicks the doc_details handler registers while a search
\* runs, the search reads the click count of each candidate once, in candidate
\* order, into click_counts (a value the shared mapping held between the start
\* of the search and now), takes max_clicks and the clicks of every candidate
\* from click_counts alone, so the popularity of every candidate is in [0, 1],
\* and it ends without an exception, returning one entry per candidate.
C14_SnapshotPopularity ==
    /\ ~raised
    /\ pc = "collect" =>
          /\ CountsRead <= Len(bm25_results)
          /\ DOMAIN click_counts = CandidatePids(CountsRead)
    /\ \A p \in DOMAIN click_counts :
          /\ ClicksFound(p) <= click_counts[p]
          /\ click_counts[p] <= ClicksNow(p)
    /\ (pc = "idle" /\ op = "search" /\ bm25_results # <<>>) =>
          /\ DOMAIN click_counts = CandidatePids(Len(bm25_results))
          /\ Len(hybrid) = Len(bm25_results)
          /\ Len(results) = Len(bm25_results)
          /\ \A k \in 1..Len(hybrid) :
                /\ hybrid[k].pop =
                      PopularityNorm(click_counts[hybrid[k].pid],
                                     MaxClicksOf(click_counts)).val
                /\ hybrid[k].pop >= 0
                /\ hybrid[k].pop <= Scale

\* C14 witness: a search has ended that read 0 clicks for its first candidate,
\* which was clicked after that, and read for a later candidate a click that
\* came in while the search was running
C14_Witness ==
    /\ pc = "idle" /\ op = "search" /\ Len(hybrid) >= 2
    /\ click_counts[hybrid[1].pid] = 0
    /\ ClicksNow(hybrid[1].pid) > 0
    /\ hybrid[1].pop = 0
    /\ \E k \in 2..Len(hybrid) :
          /\ click_counts[hybrid[k].pid] > ClicksFound(hybrid[k].pid)
          /\ hybrid[k].pop = Scale

\* the document shares no token with the query
SharesNoToken(doc) ==
    \A i \in 1..Len(QueryTokens) : Count(Tokenize(DocText(doc)), QueryTokens[i]) = 0

\* C15: a search over a non-empty corpus with a query of at least one token
\* scores every document and returns exactly min(20, |C|) of them: a document
\* that shares no token with the query has the boosted BM25 score 0 and is
\* returned like the others (all of the corpus when it has at most 20), and
\* when no document shares a token the result is still non-empty and every
\* simNorm in it is 0.
C15_AllDocumentsReturned ==
    (Searched /\ corpus # <<>> /\ QueryTokens # <<>>) =>
        /\ ~raised
        /\ scored = Len(corpus)
        /\ Len(bm25_results) = Min(TopK, Len(corpus))
        /\ Len(results) = Min(TopK, Len(corpus))
        /\ Len(corpus) <= TopK =>
              \A i \in 1..Len(corpus) :
                 \E k \in 1..Len(results) : results[k].pid = corpus[i].pid
        /\ \A k \in 1..Len(bm25_results) :
              SharesNoToken(bm25_results[k].doc) => bm25_results[k].score = 0
        /\ (\A i \in 1..Len(corpus) : SharesNoToken(corpus[i])) =>
              /\ results # <<>>
              /\ \A k \in 1..Len(hybrid) : hybrid[k].sim = 0

\* C15 witness: a corpus above the cut, a query that some documents match
\* and others do not, and 20 results with documents of both kinds
C15_Witness ==
    /\ Searched /\ QueryTokens # <<>>
    /\ Len(corpus) > TopK /\ Len(results) = TopK
    /\ \E i, j \in 1..Len(hybrid) :
          /\ hybrid[i].bm25 > 0
          /\ hybrid[j].bm25 = 0
          /\ SharesNoToken(DocOf(bm25_results, hybrid[j].pid))
          /\ \E k \in 1..Len(results) : results[k].pid = hybrid[j].pid

====
